---- MODULE Spec2Model ----
(***************************************************************************)
(* Model of lib/python/filterbank.py: the header decoder (read_header),    *)
(* the file writer (create_filterbank_file) and the FilterbankFile view    *)
(* (__init__, get_spectra, get_timeslice, __getattr__).                    *)
(*                                                                         *)
(* A file on disk is a sequence of tagged header records followed by       *)
(* trailing sample bytes.  Header values are integers; a double-valued     *)
(* field holds a small whole number, for which float division and its      *)
(* rounding are exact.  Python exceptions are the err field of a result.   *)
(***************************************************************************)
EXTENDS Integers, Sequences, FiniteSets, TLC

VARIABLES file, created, handle, last

vars == <<file, created, handle, last>>

\* ---------------------------------------------------------------- bounds
MaxTail == 10
MaxRecs == 4
MaxIdx == 2
MaxTime == 5

\* ------------------------------------------------- sigproc record format
Sentinels == {"HEADER_START", "HEADER_END"}

FieldNames == {"fch1", "foff", "nchans", "nbits", "tsamp"}

\* The closed name -> type table of the record reader.
hdr_defs(name) ==
    CASE name \in Sentinels -> "flag"
      [] name \in {"nchans", "nbits"} -> "i"
      [] name \in {"fch1", "foff", "tsamp"} -> "d"
      [] OTHER -> "unknown"

\* Number of characters of a field name.
NameLen(name) ==
    CASE name = "HEADER_START" -> 12
      [] name = "HEADER_END" -> 10
      [] name = "nchans" -> 6
      [] name \in {"nbits", "tsamp", "bogus"} -> 5
      [] OTHER -> 4

\* Encoded size of a value of the given type.
ValLen(type) ==
    CASE type = "i" -> 4
      [] type = "d" -> 8
      [] OTHER -> 0

\* On-disk size of one record: a 4-byte length prefix, the name, the value.
RecLen(r) == 4 + NameLen(r.name) + ValLen(hdr_defs(r.name))

Rec(name, val) == [name |-> name, val |-> val]

\* sigproc.addto_hdr(paramname, value): the record written for one entry.
addto_hdr(name, val) == Rec(name, IF name \in Sentinels THEN 0 ELSE val)

RECURSIVE StreamLen(_)
StreamLen(recs) ==
    IF recs = <<>> THEN 0 ELSE RecLen(Head(recs)) + StreamLen(Tail(recs))

\* File size as reported by os.stat: header records plus trailing bytes.
FileSize(f) == StreamLen(f.recs) + Len(f.data)

\* sigproc.read_hdr_val at record index i of the stream: the next record's
\* name and value and its encoded length, or the error it raises.
read_hdr_val(recs, i) ==
    IF i > Len(recs)
    THEN [err |-> "IOError", name |-> "", val |-> 0, len |-> 0]
    ELSE IF hdr_defs(recs[i].name) = "unknown"
    THEN [err |-> "MalformedHeader", name |-> recs[i].name, val |-> 0, len |-> 0]
    ELSE [err |-> "ok", name |-> recs[i].name, val |-> recs[i].val,
          len |-> RecLen(recs[i])]

\* ------------------------------------------------------- header mappings
EmptyHdr == [k \in {} |-> 0]

\* header[paramname] = val
Put(h, k, v) == [x \in (DOMAIN h) \cup {k} |-> IF x = k THEN v ELSE h[x]]

\* ------------------------------------------------------------ read_header
HdrResult(err, header, size, nread) ==
    [err |-> err, header |-> header, header_size |-> size, nread |-> nread]

\* A faulty variant of TellAfter: the position is taken before the last record is read.
TellBefore(pos, reclen) == pos

\* The position filfile.tell() reports after the loop.
TellAfter(pos, reclen) == pos + reclen

\* Whether the record just read is entered into the header (line 89).
Stored(name) == name \notin {"HEADER_START", "HEADER_END"}

\* The loop condition of line 83, as tested after a record was read.
LoopEnds(name) == name = "HEADER_END"

\* The while loop of read_header: i is the index of the next record, pos the
\* stream position, header the mapping built so far.
RECURSIVE read_loop(_, _, _, _)
read_loop(recs, i, pos, header) ==
    LET r == read_hdr_val(recs, i) IN
    IF r.err # "ok"
    THEN HdrResult(r.err, EmptyHdr, 0, i)
    ELSE LET h2 == IF Stored(r.name) THEN Put(header, r.name, r.val) ELSE header
         IN  IF LoopEnds(r.name)
             THEN HdrResult("ok", h2, TellAfter(pos, r.len), i)
             ELSE read_loop(recs, i + 1, pos + r.len, h2)

read_header(f) ==
    IF ~f.exists
    THEN HdrResult("IOError", EmptyHdr, 0, 0)
    ELSE read_loop(f.recs, 1, 0, EmptyHdr)

\* --------------------------------------------------------------- get_dtype
get_dtype(nbits) ==
    IF nbits \notin {32, 16, 8} THEN "NotImplementedError"
    ELSE IF nbits = 32 THEN "float32"
    ELSE IF nbits = 16 THEN "uint16" ELSE "uint8"

\* ------------------------------------------------------ Python arithmetic
\* Integer division of Python 2 ints: the floor of the quotient (b # 0).
PyFloorDiv(a, b) == IF b > 0 THEN a \div b ELSE (-a) \div (-b)

PyMod(a, b) == a - b * PyFloorDiv(a, b)

\* ---------------------------------------------------------- FilterbankFile
NoHandle ==
    [open |-> FALSE, read_only |-> TRUE, header |-> EmptyHdr, header_size |-> 0,
     frequencies |-> <<>>, is_hifreq_first |-> FALSE, data_size |-> 0,
     bytes_per_spectrum |-> 0, nspec |-> 0, nchans |-> 0, dtype |-> ""]

\* A faulty variant of getattr: self.header.get(name, 0), a default for an absent name.
getattr_default(header, name) ==
    [err |-> "ok", val |-> IF name \in DOMAIN header THEN header[name] ELSE 0]

\* __getattr__: self.header[name]; the err is KeyError when name is absent.
getattr(header, name) ==
    IF name \in DOMAIN header
    THEN [err |-> "ok", val |-> header[name]]
    ELSE [err |-> "KeyError", val |-> 0]

\* self.fch1 + self.foff*np.arange(self.nchans)
Frequencies(fch1, foff, nchans) ==
    [i \in 1..(IF nchans > 0 THEN nchans ELSE 0) |-> fch1 + foff * (i - 1)]

\* self.nchans*self.nbits / 8
BytesPerSpectrum(nchans, nbits) == PyFloorDiv(nchans * nbits, 8)

\* A faulty variant of NSpec: the quotient is rounded up, counting the partial spectrum.
NSpecUp(data_size, bps) == PyFloorDiv(data_size + bps - 1, bps)

\* self.data_size / self.bytes_per_spectrum
NSpec(data_size, bps) == PyFloorDiv(data_size, bps)

\* A faulty variant of NotWholeSpectra: the test of the remainder is inverted.
WholeSpectra(data_size, bps) == PyMod(data_size, bps) = 0

\* the condition of line 109
NotWholeSpectra(data_size, bps) == PyMod(data_size, bps) # 0

\* np.memmap(..., shape=(nspec, nchans)): rejects a negative dimension and,
\* read-only, a mapping longer than the file (mode r+ would grow the file
\* instead; __init__ never asks for more than nspec whole spectra, which the
\* file holds).
memmap_err(f, read_only, offset, nspec, nchans, itemsize) ==
    IF nspec < 0 \/ nchans < 0 THEN "ValueError"
    ELSE IF read_only /\ offset + nspec * nchans * itemsize > FileSize(f)
    THEN "ValueError"
    ELSE "ok"

OpenResult(err, key, warned, h) ==
    [err |-> err, key |-> key, warned |-> warned, handle |-> h]

\* FilterbankFile.__init__(filfn, read_only): the statements in order, each
\* failure leaving no object.
FilterbankFile_init(f, read_only) ==
    IF ~f.exists THEN OpenResult("ValueError", "", FALSE, NoHandle) ELSE
    LET hr == read_header(f) IN
    IF hr.err # "ok" THEN OpenResult(hr.err, "", FALSE, NoHandle) ELSE
    LET hd == hr.header IN
    IF getattr(hd, "fch1").err # "ok"
    THEN OpenResult("KeyError", "fch1", FALSE, NoHandle) ELSE
    IF getattr(hd, "foff").err # "ok"
    THEN OpenResult("KeyError", "foff", FALSE, NoHandle) ELSE
    IF getattr(hd, "nchans").err # "ok"
    THEN OpenResult("KeyError", "nchans", FALSE, NoHandle) ELSE
    LET fch1 == getattr(hd, "fch1").val
        foff == getattr(hd, "foff").val
        nchans == getattr(hd, "nchans").val
        data_size == FileSize(f) - hr.header_size
    IN
    IF getattr(hd, "nbits").err # "ok"
    THEN OpenResult("KeyError", "nbits", FALSE, NoHandle) ELSE
    LET nbits == getattr(hd, "nbits").val
        bps == BytesPerSpectrum(nchans, nbits)
    IN
    IF bps = 0 THEN OpenResult("ZeroDivisionError", "", FALSE, NoHandle) ELSE
    LET nspec == NSpec(data_size, bps)
        warned == NotWholeSpectra(data_size, bps)
        dtype == get_dtype(nbits)
    IN
    IF dtype = "NotImplementedError"
    THEN OpenResult("NotImplementedError", "", warned, NoHandle) ELSE
    LET merr == memmap_err(f, read_only, hr.header_size, nspec, nchans, nbits \div 8) IN
    IF merr # "ok" THEN OpenResult(merr, "", warned, NoHandle) ELSE
    OpenResult("ok", "", warned,
        [open |-> TRUE, read_only |-> read_only, header |-> hd,
         header_size |-> hr.header_size,
         frequencies |-> Frequencies(fch1, foff, nchans),
         is_hifreq_first |-> (foff < 0), data_size |-> data_size,
         bytes_per_spectrum |-> bps, nspec |-> nspec, nchans |-> nchans,
         dtype |-> dtype])

\* A faulty variant of SliceBound: a bound beyond the end of the axis is kept as it is.
SliceBoundNoClamp(n, i) ==
    LET j == IF i < 0 THEN i + n ELSE i IN
    IF j < 0 THEN 0 ELSE j

\* One bound of a[start:stop] on an axis of length n: a negative index
\* counts from the end, then the index is clamped to 0..n.
SliceBound(n, i) ==
    LET j == IF i < 0 THEN i + n ELSE i IN
    IF j < 0 THEN 0 ELSE IF j > n THEN n ELSE j

\* self.spectra[start:stop]: the indices of the rows of the returned view.
get_spectra(h, start, stop) ==
    LET lo == SliceBound(h.nspec, start)
        hi == SliceBound(h.nspec, stop)
    IN  [k \in 1..(IF hi > lo THEN hi - lo ELSE 0) |-> lo + k - 1]

\* A faulty variant of np_round: the quotient is truncated, as int() alone would.
np_round_trunc(n, d) == n \div d

\* np.round of the quotient n/d (d > 0): nearest integer, a tie to the even one.
np_round(n, d) ==
    LET q == n \div d
        r == n % d
    IN  IF 2 * r < d THEN q
        ELSE IF 2 * r > d THEN q + 1
        ELSE IF q % 2 = 0 THEN q ELSE q + 1

\* get_timeslice(start, stop)
get_timeslice(h, start, stop) ==
    LET t == getattr(h.header, "tsamp") IN
    IF t.err # "ok" THEN [err |-> "KeyError", rows |-> <<>>]
    ELSE IF t.val = 0 THEN [err |-> "ZeroDivisionError", rows |-> <<>>]
    ELSE [err |-> "ok",
          rows |-> get_spectra(h, np_round(start, t.val), np_round(stop, t.val))]

\* The bytes of the file: each record's encoding (opaque, -1 per byte), then
\* the trailing bytes.
RECURSIVE RecBytes(_)
RecBytes(recs) ==
    IF recs = <<>> THEN <<>>
    ELSE [k \in 1..RecLen(Head(recs)) |-> -1] \o RecBytes(Tail(recs))

FileBytes(f) == RecBytes(f.recs) \o f.data

\* The bytes the memmap (offset=header_size, shape=(nspec, nchans)) exposes
\* as row i of self.spectra.
RowBytes(f, h, i) ==
    SubSeq(FileBytes(f), h.header_size + i * h.bytes_per_spectrum + 1,
           h.header_size + (i + 1) * h.bytes_per_spectrum)

\* The bytes of a view, given the indices of its rows.
RECURSIVE ViewBytes(_, _, _)
ViewBytes(f, h, rows) ==
    IF rows = <<>> THEN <<>>
    ELSE RowBytes(f, h, Head(rows)) \o ViewBytes(f, h, Tail(rows))

\* ------------------------------------------------- create_filterbank_file
\* What evaluating the name self yields inside the module-level function
\* create_filterbank_file: it has no such parameter and the module no such global.
SelfLookup == "NameError"

NoSpectra == [none |-> TRUE, bytes |-> <<>>]

\* create_filterbank_file(outfn, header, spectra): the records and sample
\* bytes handed to outfile.write before the call ends, and how it ends.
\* Line 31 writes the start record; line 32 evaluates self.header and raises,
\* so lines 33-40 (fields, end record, samples, close) never run.
create_filterbank_file(header, spectra) ==
    LET written == <<addto_hdr("HEADER_START", 0)>> IN
    IF SelfLookup = "NameError"
    THEN [err |-> "NameError", recs |-> written, data |-> <<>>]
    ELSE [err |-> "ok", recs |-> written, data |-> <<>>]

\* ------------------------------------------------------------ input sets
\* Values a file's header may carry for each field.
FieldVals(name) ==
    CASE name = "fch1" -> {1400}
      [] name = "foff" -> {-1}
      [] name = "nchans" -> {-1, 0, 1, 2}
      [] name = "nbits" -> {4, 8, 16, 32}
      [] name = "tsamp" -> {0, 2}

\* All header mappings over a set of field names, each field present or not.
RECURSIVE Mappings(_)
Mappings(names) ==
    IF names = {} THEN {EmptyHdr}
    ELSE LET k == CHOOSE x \in names : TRUE
             rest == Mappings(names \ {k})
         IN  rest \cup {Put(m, k, v) : m \in rest, v \in FieldVals(k)}

HeaderMappings == Mappings(FieldNames)

\* The order in which a mapping's entries are iterated.
KeyOrder == <<"fch1", "foff", "nchans", "nbits", "tsamp">>

RECURSIVE FieldRecs(_, _)
FieldRecs(h, i) ==
    IF i > Len(KeyOrder) THEN <<>>
    ELSE IF KeyOrder[i] \in DOMAIN h
    THEN <<addto_hdr(KeyOrder[i], h[KeyOrder[i]])>> \o FieldRecs(h, i + 1)
    ELSE FieldRecs(h, i + 1)

\* The header stream of the format: start record, the fields, end record.
EncodedHeader(h) ==
    <<addto_hdr("HEADER_START", 0)>> \o FieldRecs(h, 1)
        \o <<addto_hdr("HEADER_END", 0)>>

\* Records of streams that need not follow the format.
ArbRecords ==
    {Rec("HEADER_START", 0), Rec("HEADER_END", 0), Rec("nchans", 1),
     Rec("nchans", 2), Rec("bogus", 0)}

RECURSIVE SeqsUpTo(_, _)
SeqsUpTo(S, n) ==
    IF n = 0 THEN {<<>>}
    ELSE LET shorter == SeqsUpTo(S, n - 1)
         IN  shorter \cup {Append(q, x) : q \in shorter, x \in S}

Streams == {EncodedHeader(h) : h \in HeaderMappings} \cup SeqsUpTo(ArbRecords, MaxRecs)

\* n sample bytes with distinguishable contents.
Ramp(n) == [k \in 1..n |-> k % 256]

NoFile == [exists |-> FALSE, recs |-> <<>>, data |-> <<>>]

Files ==
    {NoFile} \cup
    {[exists |-> TRUE, recs |-> rs, data |-> Ramp(n)] : rs \in Streams, n \in 0..MaxTail}

\* Arguments of create_filterbank_file.
CreateHeaders ==
    {EmptyHdr} \cup
    {h \in HeaderMappings :
        /\ DOMAIN h = FieldNames
        /\ h["nchans"] \in {1, 2}
        /\ h["nbits"] \in {8, 16}
        /\ h["tsamp"] = 2}

CreateSpectra == {NoSpectra} \cup {[none |-> FALSE, bytes |-> Ramp(n)] : n \in {0, 4}}

Indices == (-MaxIdx)..MaxIdx

Times == 0..MaxTime

AttrNames == FieldNames \cup {"bogus"}

\* ---------------------------------------------------------- state machine
NoCall ==
    [op |-> "none", a |-> 0, b |-> 0, name |-> "", err |-> "", key |-> "",
     warned |-> FALSE, rows |-> <<>>, val |-> 0, header |-> EmptyHdr,
     header_size |-> 0, nread |-> 0]

NotCreated == [called |-> FALSE, header |-> EmptyHdr, spectra |-> NoSpectra, err |-> ""]

Init ==
    /\ file \in Files
    /\ created = NotCreated
    /\ handle = NoHandle
    /\ last = NoCall

\* create_filterbank_file(outfn, header, spectra) on the path of file.  The
\* call ends in an exception with outfile neither flushed nor closed: the
\* buffered bytes reach the disk when the file object is collected, which a
\* later reader may or may not see (flushed).
Create ==
    /\ ~handle.open
    /\ \E h \in CreateHeaders, s \in CreateSpectra, flushed \in BOOLEAN :
        LET c == create_filterbank_file(h, s) IN
        /\ file' = [exists |-> TRUE,
                    recs |-> IF c.err = "ok" \/ flushed THEN c.recs ELSE <<>>,
                    data |-> IF c.err = "ok" \/ flushed THEN c.data ELSE <<>>]
        /\ created' = [called |-> TRUE, header |-> h, spectra |-> s, err |-> c.err]
        /\ last' = [NoCall EXCEPT !.op = "create", !.err = c.err]
    /\ UNCHANGED handle

\* read_header(filename)
ReadHeader ==
    /\ LET r == read_header(file) IN
        last' = [NoCall EXCEPT !.op = "read_header", !.err = r.err,
                               !.header = r.header,
                               !.header_size = r.header_size, !.nread = r.nread]
    /\ UNCHANGED <<file, created, handle>>

\* fil = FilterbankFile(filfn, read_only)
Open ==
    /\ \E ro \in BOOLEAN :
        LET o == FilterbankFile_init(file, ro) IN
        /\ handle' = IF o.err = "ok" THEN o.handle ELSE handle
        /\ last' = [NoCall EXCEPT !.op = "open", !.err = o.err, !.key = o.key,
                                  !.warned = o.warned]
    /\ UNCHANGED <<file, created>>

\* fil.get_spectra(start, stop)
GetSpectra ==
    /\ handle.open
    /\ \E start \in Indices, stop \in Indices :
        last' = [NoCall EXCEPT !.op = "get_spectra", !.a = start, !.b = stop,
                               !.err = "ok",
                               !.rows = get_spectra(handle, start, stop)]
    /\ UNCHANGED <<file, created, handle>>

\* fil.get_timeslice(start, stop)
GetTimeslice ==
    /\ handle.open
    /\ \E start \in Times, stop \in Times :
        LET r == get_timeslice(handle, start, stop) IN
        last' = [NoCall EXCEPT !.op = "get_timeslice", !.a = start, !.b = stop,
                               !.err = r.err, !.rows = r.rows,
                               !.key = IF r.err = "KeyError" THEN "tsamp" ELSE ""]
    /\ UNCHANGED <<file, created, handle>>

\* fil.<name> for a name that is no instance attribute
GetAttr ==
    /\ handle.open
    /\ \E name \in AttrNames :
        LET r == getattr(handle.header, name) IN
        last' = [NoCall EXCEPT !.op = "getattr", !.name = name, !.err = r.err,
                               !.val = r.val,
                               !.key = IF r.err = "KeyError" THEN name ELSE ""]
    /\ UNCHANGED <<file, created, handle>>

\* The FilterbankFile object is dropped.
Release ==
    /\ handle.open
    /\ handle' = NoHandle
    /\ last' = [NoCall EXCEPT !.op = "release"]
    /\ UNCHANGED <<file, created>>

Next ==
    \/ Create
    \/ ReadHeader
    \/ Open
    \/ GetSpectra
    \/ GetTimeslice
    \/ GetAttr
    \/ Release

Spec == Init /\ [][Next]_vars

\* ================================================================ claims
\* Index of the first HEADER_END record of a stream, 0 when there is none.
FirstEnd(recs) ==
    IF \E i \in 1..Len(recs) : recs[i].name = "HEADER_END"
    THEN CHOOSE i \in 1..Len(recs) :
            /\ recs[i].name = "HEADER_END"
            /\ \A j \in 1..(i - 1) : recs[j].name # "HEADER_END"
    ELSE 0

\* The (name, value) pairs a mapping holds.
Pairs(h) == {<<k, h[k]>> : k \in DOMAIN h}

\* The non-sentinel (name, value) records among the first n of a stream.
RecordPairs(recs, n) ==
    {<<recs[i].name, recs[i].val>> : i \in {j \in 1..n : recs[j].name \notin Sentinels}}

\* The value of the last record named k among the first n of a stream.
LastVal(recs, n, k) ==
    LET I == {i \in 1..n : recs[i].name = k}
    IN  recs[CHOOSE i \in I : \A j \in I : j <= i].val

\* The stream follows the format: start record, known fields with distinct
\* names, end record, nothing after it.
WellFormed(recs) ==
    /\ Len(recs) >= 2
    /\ recs[1].name = "HEADER_START"
    /\ recs[Len(recs)].name = "HEADER_END"
    /\ \A i \in 2..(Len(recs) - 1) : recs[i].name \in FieldNames
    /\ \A i, j \in 2..(Len(recs) - 1) : recs[i].name = recs[j].name => i = j

\* The fields of a well-formed stream.
FieldsOf(recs) == {recs[i].name : i \in 2..(Len(recs) - 1)}

Min2(a, b) == IF a < b THEN a ELSE b

Max2(a, b) == IF a > b THEN a ELSE b

\* ---- C1
\* C1: after create_filterbank_file(path, h, s) with a full header h and
\* samples s filling whole spectra of h's sample width, the call has
\* completed without error, and a FilterbankFile opened on the path has
\* header = h and get_spectra(0, nspec) byte-identical to s.
C1_RoundTrip ==
    (/\ created.called
     /\ DOMAIN created.header = FieldNames
     /\ ~created.spectra.none
     /\ Len(created.spectra.bytes)
            % (created.header["nchans"] * (created.header["nbits"] \div 8)) = 0)
    => /\ created.err = "ok"
       /\ last.op = "open" =>
            /\ last.err = "ok"
            /\ handle.open
            /\ handle.header = created.header
            /\ ViewBytes(file, handle, get_spectra(handle, 0, handle.nspec))
                    = created.spectra.bytes

\* ---- C2
\* C2: read_header on a stream whose first record is not HEADER_START fails
\* and returns no header mapping.
C2_StartRequired ==
    (/\ last.op = "read_header"
     /\ file.exists
     /\ (file.recs = <<>> \/ file.recs[1].name # "HEADER_START"))
    => last.err # "ok"

\* ---- C3
\* C3 (as stated): when read_header returns on a stream that opens with the
\* start sentinel and has an end sentinel, it has read no record after the
\* first HEADER_END, header_size is the position right after that sentinel,
\* and the mapping holds exactly the non-sentinel (name, value) records read
\* before it.
C3_Original ==
    (/\ last.op = "read_header"
     /\ last.err = "ok"
     /\ FirstEnd(file.recs) > 0
     /\ file.recs[1].name = "HEADER_START")
    => LET n == FirstEnd(file.recs) IN
       /\ last.nread = n
       /\ last.header_size = StreamLen(SubSeq(file.recs, 1, n))
       /\ Pairs(last.header) = RecordPairs(file.recs, n)
       /\ DOMAIN last.header \cap Sentinels = {}

\* C3 (amended): when read_header returns, the stream has an end sentinel, no
\* record after the first HEADER_END was read, header_size is the position
\* right after that sentinel (the offset of the first sample byte), and the
\* mapping's keys are exactly the non-sentinel names read before it, each
\* mapped to the value of the last record of that name.
C3_HeaderEnd ==
    (last.op = "read_header" /\ last.err = "ok")
    => LET n == FirstEnd(file.recs) IN
       /\ n > 0
       /\ last.nread = n
       /\ last.header_size = StreamLen(SubSeq(file.recs, 1, n))
       /\ last.header_size + StreamLen(SubSeq(file.recs, n + 1, Len(file.recs)))
            + Len(file.data) = FileSize(file)
       /\ DOMAIN last.header = {p[1] : p \in RecordPairs(file.recs, n)}
       /\ \A k \in DOMAIN last.header : last.header[k] = LastVal(file.recs, n, k)
       /\ DOMAIN last.header \cap Sentinels = {}

\* read_header returned on a stream that repeats a field name before the end
\* sentinel and carries a record after it.
C3_Witness ==
    /\ last.op = "read_header"
    /\ last.err = "ok"
    /\ file.recs[1].name = "HEADER_START"
    /\ \E i, j \in 1..FirstEnd(file.recs) :
            i < j /\ file.recs[i].name = file.recs[j].name
                  /\ file.recs[i].val # file.recs[j].val
    /\ last.header # EmptyHdr

\* ---- C4
\* C4: for an open FilterbankFile, nspec * bytes_per_spectrum <= data_size
\* < (nspec + 1) * bytes_per_spectrum, with data_size = file size -
\* header_size and bytes_per_spectrum = nchans * (nbits / 8).
C4_SpectraCount ==
    handle.open
    => LET data_size == FileSize(file) - StreamLen(SubSeq(file.recs, 1, FirstEnd(file.recs)))
           bps == handle.header["nchans"] * (handle.header["nbits"] \div 8)
       IN  /\ handle.data_size = data_size
           /\ handle.bytes_per_spectrum = bps
           /\ handle.nspec * bps <= data_size
           /\ data_size < (handle.nspec + 1) * bps

\* An open file with whole spectra and a trailing partial spectrum.
C4_Witness ==
    /\ handle.open
    /\ handle.nspec >= 2
    /\ handle.bytes_per_spectrum >= 2
    /\ handle.data_size > handle.nspec * handle.bytes_per_spectrum

\* ---- C5
\* C5: opening a file whose header has all geometry fields, at least one
\* channel and nbits outside {8, 16, 32} fails with NotImplementedError,
\* whatever nchans and data_size, and produces no handle.
C5_UnsupportedWidth ==
    (/\ last.op = "open"
     /\ WellFormed(file.recs)
     /\ {"fch1", "foff", "nchans", "nbits"} \subseteq FieldsOf(file.recs)
     /\ LastVal(file.recs, Len(file.recs), "nchans") >= 1
     /\ LastVal(file.recs, Len(file.recs), "nbits") \notin {8, 16, 32})
    => last.err = "NotImplementedError" /\ ~handle.open

\* ---- C6
\* C6: opening a file with valid geometry succeeds; a warning is emitted
\* exactly when data_size is no multiple of bytes_per_spectrum; nspec is the
\* truncated quotient, the view has exactly nspec rows and no row reaches
\* into the trailing partial spectrum; data_size = 10 with
\* bytes_per_spectrum = 4 gives nspec = 2 and get_spectra(0, 2) of 2 rows.
C6_PartialSpectrum ==
    (/\ last.op = "open"
     /\ WellFormed(file.recs)
     /\ {"fch1", "foff", "nchans", "nbits"} \subseteq FieldsOf(file.recs)
     /\ LastVal(file.recs, Len(file.recs), "nchans") >= 1
     /\ LastVal(file.recs, Len(file.recs), "nbits") \in {8, 16, 32})
    => LET data_size == Len(file.data)
           bps == LastVal(file.recs, Len(file.recs), "nchans")
                    * (LastVal(file.recs, Len(file.recs), "nbits") \div 8)
           all == get_spectra(handle, 0, handle.nspec + 1)
       IN  /\ last.err = "ok"
           /\ handle.open
           /\ last.warned <=> (data_size % bps # 0)
           /\ handle.nspec = data_size \div bps
           /\ Len(all) = handle.nspec
           /\ \A k \in 1..Len(all) :
                Len(RowBytes(file, handle, all[k])) = bps
                /\ StreamLen(file.recs) + (all[k] + 1) * bps
                        <= FileSize(file) - (data_size % bps)
           /\ (data_size = 10 /\ bps = 4)
                => /\ handle.nspec = 2
                   /\ last.warned
                   /\ get_spectra(handle, 0, 2) = <<0, 1>>
                   /\ Len(ViewBytes(file, handle, get_spectra(handle, 0, 2))) = 8

\* The scenario: data_size = 10, bytes_per_spectrum = 4, opened with a warning.
C6_Witness ==
    /\ last.op = "open"
    /\ last.err = "ok"
    /\ last.warned
    /\ handle.open
    /\ handle.data_size = 10
    /\ handle.bytes_per_spectrum = 4
    /\ handle.nspec = 2

\* ---- C7
\* C7 (as stated): get_spectra(start, stop) does not raise and every row it
\* returns has an index i with max(start, 0) <= i < min(stop, nspec).
C7_Original ==
    last.op = "get_spectra"
    => /\ last.err = "ok"
       /\ \A k \in 1..Len(last.rows) :
            /\ Max2(last.a, 0) <= last.rows[k]
            /\ last.rows[k] < Min2(last.b, handle.nspec)

\* A negative bound counted from the end of the axis.
FromEnd(n, i) == IF i < 0 THEN i + n ELSE i

\* C7 (amended): get_spectra(start, stop) does not raise; a negative start or
\* stop counts from the end (nspec is added to it), and the rows returned
\* are, in ascending order, exactly the indices i of [0, nspec) with
\* start' <= i < stop'.
C7_Slice ==
    last.op = "get_spectra"
    => LET lo == FromEnd(handle.nspec, last.a)
           hi == FromEnd(handle.nspec, last.b)
       IN  /\ last.err = "ok"
           /\ {last.rows[k] : k \in 1..Len(last.rows)}
                = {i \in 0..(handle.nspec - 1) : lo <= i /\ i < hi}
           /\ \A k \in 1..(Len(last.rows) - 1) : last.rows[k + 1] = last.rows[k] + 1

\* get_spectra with a negative start and a stop beyond nspec returned rows.
C7_Witness ==
    /\ last.op = "get_spectra"
    /\ last.a < 0
    /\ last.b > handle.nspec
    /\ last.rows # <<>>

\* ---- C8
\* n/d (d > 0) rounded to the nearest integer, a tie away from zero.
RoundHalfAway(n, d) ==
    IF n >= 0 THEN (2 * n + d) \div (2 * d) ELSE -((2 * (-n) + d) \div (2 * d))

\* n/d (d > 0) rounded to the nearest integer, a tie to the even neighbour.
RoundHalfEven(n, d) ==
    CHOOSE k \in (n \div d)..((n \div d) + 1) :
        /\ 2 * n - 2 * k * d <= d
        /\ 2 * k * d - 2 * n <= d
        /\ (2 * n - 2 * k * d \in {d, -d}) => k % 2 = 0

InRange(h, start, stop) ==
    /\ 0 <= start
    /\ start <= stop
    /\ stop <= h.nspec * h.header["tsamp"]

\* C8 (as stated): for in-range start <= stop, get_timeslice(start, stop) is
\* get_spectra(round(start/tsamp), round(stop/tsamp)) with ties rounded away
\* from zero.
C8_Original ==
    (last.op = "get_timeslice" /\ last.err = "ok" /\ InRange(handle, last.a, last.b))
    => last.rows = get_spectra(handle,
                        RoundHalfAway(last.a, handle.header["tsamp"]),
                        RoundHalfAway(last.b, handle.header["tsamp"]))

\* C8 (amended): for in-range start <= stop and tsamp > 0,
\* get_timeslice(start, stop) does not raise and is
\* get_spectra(round(start/tsamp), round(stop/tsamp)) with ties rounded to
\* the even integer.
C8_Timeslice ==
    (/\ last.op = "get_timeslice"
     /\ "tsamp" \in DOMAIN handle.header
     /\ handle.header["tsamp"] > 0
     /\ InRange(handle, last.a, last.b))
    => /\ last.err = "ok"
       /\ last.rows = get_spectra(handle,
                        RoundHalfEven(last.a, handle.header["tsamp"]),
                        RoundHalfEven(last.b, handle.header["tsamp"]))

\* An in-range get_timeslice whose two bounds are ties and that returned rows.
C8_Witness ==
    /\ last.op = "get_timeslice"
    /\ last.err = "ok"
    /\ handle.header["tsamp"] = 2
    /\ InRange(handle, last.a, last.b)
    /\ last.a % 2 = 1
    /\ last.b % 2 = 1
    /\ last.rows # <<>>

\* ---- C9
\* C9: create_filterbank_file leaves in the file the HEADER_START record, one
\* record per header entry in iteration order, the HEADER_END record, and
\* then the sample bytes if and only if spectra were supplied.
C9_WriteOrder ==
    last.op = "create"
    => /\ file.recs = EncodedHeader(created.header)
       /\ file.data = (IF created.spectra.none THEN <<>> ELSE created.spectra.bytes)

\* ---- C10
\* The first of the fields __init__ reads that the stream lacks.
FirstMissing(recs) ==
    LET order == <<"fch1", "foff", "nchans", "nbits">>
        miss == {i \in 1..4 : order[i] \notin FieldsOf(recs)}
    IN  order[CHOOSE i \in miss : \A j \in miss : i <= j]

\* C10: a well-formed header lacking a geometry field is decoded by
\* read_header without error; opening fails with KeyError on the first
\* missing one of fch1, foff, nchans, nbits, and not on a missing tsamp, for
\* which the first get_timeslice fails with KeyError; reading any field absent
\* from the header fails with KeyError and returns no value.
C10_OnDemand ==
    /\ (last.op = "read_header" /\ WellFormed(file.recs))
        => last.err = "ok" /\ DOMAIN last.header = FieldsOf(file.recs)
    /\ (/\ last.op = "open"
        /\ WellFormed(file.recs)
        /\ ~({"fch1", "foff", "nchans", "nbits"} \subseteq FieldsOf(file.recs)))
        => /\ last.err = "KeyError"
           /\ last.key = FirstMissing(file.recs)
           /\ ~handle.open
    /\ (/\ last.op = "open"
        /\ WellFormed(file.recs)
        /\ {"fch1", "foff", "nchans", "nbits"} \subseteq FieldsOf(file.recs))
        => last.err # "KeyError"
    /\ (last.op = "get_timeslice" /\ "tsamp" \notin FieldsOf(file.recs))
        => last.err = "KeyError" /\ last.key = "tsamp" /\ last.rows = <<>>
    /\ last.op = "getattr"
        => IF last.name \in FieldsOf(file.recs)
           THEN last.err = "ok"
                /\ last.val = LastVal(file.recs, Len(file.recs), last.name)
           ELSE last.err = "KeyError" /\ last.key = last.name

\* A file without tsamp was opened and its first get_timeslice failed.
C10_Witness ==
    /\ last.op = "get_timeslice"
    /\ handle.open
    /\ "tsamp" \notin FieldsOf(file.recs)
    /\ last.err = "KeyError"
    /\ last.key = "tsamp"

====
